---- MODULE Spec2Model ----
(***************************************************************************)
(* A model of personalized_Outreach_Generator.py: the CSV -> CSV outreach  *)
(* generator.  Three specifications share this module:                     *)
(*   SpecParse  parse_output applied to bounded response texts             *)
(*   SpecBody   build_email_body applied to bounded parsed records / langs *)
(*   Spec       main(): configuration checks, the row loop, the service    *)
(*              call, the output file, the pacing delay and the totals     *)
(*                                                                         *)
(* A Python str is a sequence of characters, each character a one-letter   *)
(* TLA+ string.  A literal that no operation of the program looks inside   *)
(* (a heading, the signature) is kept as one element.                      *)
(***************************************************************************)
EXTENDS Integers, Sequences, FiniteSets, TLC

\* ---------------------------------------------------------------- bounds
MaxLines == 5      \* lines of a response text given to parse_output
MaxLangLen == 3    \* characters of a lang value given to build_email_body
MaxRows == 3       \* data rows of the input file

\* ------------------------------------------------------- str primitives
NL == "\n"
WS == {" ", "\t", NL}              \* what str.strip() removes

Lower1(c) ==
  CASE c = "S" -> "s" [] c = "U" -> "u" [] c = "B" -> "b" [] c = "J" -> "j"
    [] c = "E" -> "e" [] c = "C" -> "c" [] c = "T" -> "t" [] c = "O" -> "o"
    [] c = "P" -> "p" [] c = "N" -> "n" [] c = "R" -> "r" [] c = "L" -> "l"
    [] c = "A" -> "a" [] OTHER -> c

\* str.lower()
Lower(s) == [i \in 1..Len(s) |-> Lower1(s[i])]

\* str.startswith(prefix)
StartsWith(s, prefix) ==
  /\ Len(s) >= Len(prefix)
  /\ \A i \in 1..Len(prefix) : s[i] = prefix[i]

\* str.strip(): drop the leading and the trailing whitespace
RECURSIVE FirstInk(_, _)
FirstInk(s, i) == IF i > Len(s) \/ s[i] \notin WS THEN i ELSE FirstInk(s, i + 1)
RECURSIVE LastInk(_, _)
LastInk(s, i) == IF i < 1 \/ s[i] \notin WS THEN i ELSE LastInk(s, i - 1)
Strip(s) == SubSeq(s, FirstInk(s, 1), LastInk(s, Len(s)))

\* sep.join(parts)
RECURSIVE Join(_, _)
Join(parts, sep) ==
  IF parts = <<>> THEN <<>>
  ELSE IF Len(parts) = 1 THEN parts[1]
  ELSE parts[1] \o sep \o Join(Tail(parts), sep)

\* str.splitlines(): cut at each newline; a trailing newline starts no line
SplitLines(s) ==
  LET nls == SelectSeq([i \in 1..Len(s) |-> i], LAMBDA i : s[i] = NL)
      start(k) == IF k = 1 THEN 1 ELSE nls[k - 1] + 1
      segs == [k \in 1..Len(nls) |-> SubSeq(s, start(k), nls[k] - 1)]
      last == SubSeq(s, start(Len(nls) + 1), Len(s))
  IN  IF last = <<>> THEN segs ELSE Append(segs, last)

\* l.split(":", 1)[1]: what follows the first colon; IndexError without one
AfterColon(l) ==
  LET cs == {i \in 1..Len(l) : l[i] = ":"}
  IN  IF cs = {} THEN [raised |-> TRUE, val |-> <<>>]
      ELSE LET c == CHOOSE i \in cs : \A j \in cs : i <= j
           IN  [raised |-> FALSE, val |-> SubSeq(l, c + 1, Len(l))]

\* ---------------------------------------------------------- parse_output
SubjectMark == <<"s","u","b","j","e","c","t",":">>
OpenerMark  == <<"o","p","e","n","e","r",":">>
BulletsMark == <<"b","u","l","l","e","t","s",":">>
CtaMark     == <<"c","t","a",":">>
Dash        == <<"-">>

NoSection == "None"                \* line 76: section = None
Fields == {"subject", "opener", "bullet1", "bullet2", "bullet3", "cta"}
BulletField(i) == CASE i = 1 -> "bullet1" [] i = 2 -> "bullet2" [] OTHER -> "bullet3"

\* line 74: the trimmed, non-empty lines of the text
NonEmptyLines(text) ==
  LET raw == SplitLines(text)
      trimmed == [i \in 1..Len(raw) |-> Strip(raw[i])]
  IN  SelectSeq(trimmed, LAMBDA l : l # <<>>)

\* a parser whose record starts without the cta field (set only by a CTA: line)
EmptyOutNoCta == [f \in Fields \ {"cta"} |-> <<>>]

\* line 75: the record every field of which starts empty
EmptyOut == [f \in Fields |-> <<>>]

\* lines 80, 82, 88: out[field] = l.split(":",1)[1].strip(); section = None
SetField(st, field, l) ==
  LET v == AfterColon(l)
  IN  IF v.raised THEN [st EXCEPT !.raised = TRUE]
      ELSE [st EXCEPT !.out = (field :> Strip(v.val)) @@ st.out, !.section = NoSection]

\* a scanning loop that collects a '-' line whatever the section
ParseLineAnySection(st, l) ==
  LET low == Lower(l)
  IN  IF StartsWith(low, SubjectMark) THEN SetField(st, "subject", l)
      ELSE IF StartsWith(low, OpenerMark) THEN SetField(st, "opener", l)
      ELSE IF StartsWith(low, BulletsMark) THEN [st EXCEPT !.section = "bullets"]
      ELSE IF StartsWith(l, Dash)
           THEN [st EXCEPT !.bullets = Append(st.bullets, Strip(Tail(l)))]
      ELSE IF StartsWith(low, CtaMark) THEN SetField(st, "cta", l)
      ELSE st

\* lines 78-88: one iteration of the scanning loop
ParseLine(st, l) ==
  LET low == Lower(l)
  IN  IF StartsWith(low, SubjectMark) THEN SetField(st, "subject", l)
      ELSE IF StartsWith(low, OpenerMark) THEN SetField(st, "opener", l)
      ELSE IF StartsWith(low, BulletsMark) THEN [st EXCEPT !.section = "bullets"]
      ELSE IF StartsWith(l, Dash) /\ st.section = "bullets"
           THEN [st EXCEPT !.bullets = Append(st.bullets, Strip(Tail(l)))]
      ELSE IF StartsWith(low, CtaMark) THEN SetField(st, "cta", l)
      ELSE st

\* lines 77-88: the loop over the lines
RECURSIVE ParseLoop(_, _, _)
ParseLoop(lines, i, st) ==
  IF i > Len(lines) \/ st.raised THEN st
  ELSE ParseLoop(lines, i + 1, ParseLine(st, lines[i]))

\* lines 89-90: the first three bullets, the rest empty
FillBullets(out, bullets) ==
  LET b(i) == IF i <= Len(bullets) THEN bullets[i] ELSE <<>>
  IN  (BulletField(1) :> b(1)) @@ (BulletField(2) :> b(2)) @@ (BulletField(3) :> b(3))
      @@ out

\* parse_output (lines 72-91): [raised, out]
parse_output(text) ==
  LET st == ParseLoop(NonEmptyLines(text), 1,
                      [out |-> EmptyOut, bullets |-> <<>>, section |-> NoSection,
                       raised |-> FALSE])
  IN  [raised |-> st.raised,
       out |-> IF st.raised THEN st.out ELSE FillBullets(st.out, st.bullets)]

\* ------------------------------------------------------ build_email_body
\* line 110 (its diacritics dropped) and line 112: the two headings
HeadingRo == <<"Ce putem livra in 1 saptamana:">>
HeadingEn == <<"What we can deliver in 1 week:">>
RoPrefix  == <<"r", "o">>
Closing   == <<"Best,">>
Signature == <<"Magnusbane Team">>

\* parsed.get(key, "").strip()
GetStripped(parsed, key) ==
  IF key \in DOMAIN parsed THEN Strip(parsed[key]) ELSE <<>>

\* a heading selected without lower-casing the language tag
HeadingCaseSensitive(lang) ==
  IF StartsWith(lang, RoPrefix) THEN HeadingRo ELSE HeadingEn

\* lines 109-112: the heading the language selects
Heading(lang) ==
  IF StartsWith(Lower(lang), RoPrefix) THEN HeadingRo ELSE HeadingEn

\* lines 113-115: if b: body_lines.append(f"- {b}")
BulletLine(b) == IF b # <<>> THEN << <<"-", " ">> \o b >> ELSE <<>>

\* a bullet block that is present only when the first bullet is
BulletBlockFirstOnly(b1, b2, b3, lang) ==
  IF b1 # <<>>
  THEN << <<>>, Heading(lang) >> \o BulletLine(b1) \o BulletLine(b2) \o BulletLine(b3)
  ELSE <<>>

\* lines 107-115: the bullet block
BulletBlock(b1, b2, b3, lang) ==
  IF b1 # <<>> \/ b2 # <<>> \/ b3 # <<>>
  THEN << <<>>, Heading(lang) >> \o BulletLine(b1) \o BulletLine(b2) \o BulletLine(b3)
  ELSE <<>>

\* lines 116-118: the call-to-action block
CtaBlock(cta) == IF cta # <<>> THEN << <<>>, cta >> ELSE <<>>

\* build_email_body (lines 93-122); company, niche and the subject are unused
build_email_body(company, niche, parsed, lang) ==
  LET opener == GetStripped(parsed, "opener")
      b1  == GetStripped(parsed, "bullet1")
      b2  == GetStripped(parsed, "bullet2")
      b3  == GetStripped(parsed, "bullet3")
      cta == GetStripped(parsed, "cta")
      body_lines == <<opener>> \o BulletBlock(b1, b2, b3, lang) \o CtaBlock(cta)
                    \o << <<>>, Closing, Signature >>
  IN  Join(body_lines, <<NL>>)

\* ------------------------------------------------- Usage and est_cost
\* lines 7-8: the rates, in 10^-8 USD per token (0.15 and 0.60 USD per million)
INPUT_PER_TOKEN  == 15
OUTPUT_PER_TOKEN == 60

\* lines 18-22: Usage()
ZeroUsage == [prompt_tokens |-> 0, completion_tokens |-> 0, total_tokens |-> 0]

\* an estimate with the two rates exchanged
est_cost_swapped(u) ==
  u.prompt_tokens * OUTPUT_PER_TOKEN + u.completion_tokens * INPUT_PER_TOKEN

\* lines 24-25: est_cost, in 10^-8 USD
est_cost(u) ==
  u.prompt_tokens * INPUT_PER_TOKEN + u.completion_tokens * OUTPUT_PER_TOKEN

\* lines 181, 189: f"{x:.6f}", the cost rounded to 10^-6 USD (the values of this
\* model never fall half way between two renderings)
Format6(x) == (x + 50) \div 100

\* getattr(resp.usage, name, 0)
GetAttr(u, name) == IF name \in DOMAIN u THEN u[name] ELSE 0

\* lines 65-69: the Usage built from the response
UsageOf(u) ==
  [prompt_tokens |-> GetAttr(u, "prompt_tokens"),
   completion_tokens |-> GetAttr(u, "completion_tokens"),
   total_tokens |-> GetAttr(u, "total_tokens")]

\* lines 170-172: total += usage
AddUsage(total, usage) ==
  [prompt_tokens |-> total.prompt_tokens + usage.prompt_tokens,
   completion_tokens |-> total.completion_tokens + usage.completion_tokens,
   total_tokens |-> total.total_tokens + usage.total_tokens]

\* ------------------------------------------------------- rows of the CSV
\* a cell of a csv.DictReader row: a str, or None for a cell the row lacks
Cell(str) == [isNone |-> FALSE, s |-> str]
NoneCell  == [isNone |-> TRUE, s |-> <<>>]

\* (cell or default): None and "" are falsy
OrElse(cell, default) == IF cell.isNone \/ cell.s = <<>> THEN default ELSE cell.s

\* lines 158-161: the four fields of the row
Company(row) == Strip(OrElse(row.company_name, <<>>))
Niche(row)   == Strip(OrElse(row.niche, <<>>))
Website(row) == Strip(OrElse(row.website, <<>>))
Lang(row, default_lang) ==
  LET l == Strip(OrElse(row.lang, default_lang))
  IN  IF l = <<>> THEN default_lang ELSE l

\* a row skipped only when both fields are missing
IsSkippedBoth(company, niche) == company = <<>> /\ niche = <<>>

\* line 162: if not company or not niche
IsSkipped(company, niche) == company = <<>> \/ niche = <<>>

\* line 184: max(args.delay_ms, 0), in milliseconds
SleepMs(delay_ms) == IF delay_ms > 0 THEN delay_ms ELSE 0

\* lines 150-153: the columns of the output file
Fieldnames ==
  <<"company_name", "niche", "website", "lang", "subject", "opener", "bullet1",
    "bullet2", "bullet3", "cta", "email_body", "prompt_tokens", "completion_tokens",
    "total_tokens", "est_cost_usd">>

\* lines 167-182: the output record of one prospect
OutputRecord(cur, text, usage) ==
  LET parsed == parse_output(text).out
  IN  [company_name |-> cur.company, niche |-> cur.niche, website |-> cur.website,
       lang |-> cur.lang,
       subject |-> parsed["subject"], opener |-> parsed["opener"],
       bullet1 |-> parsed["bullet1"], bullet2 |-> parsed["bullet2"],
       bullet3 |-> parsed["bullet3"], cta |-> parsed["cta"],
       email_body |-> build_email_body(cur.company, cur.niche, parsed, cur.lang),
       prompt_tokens |-> usage.prompt_tokens,
       completion_tokens |-> usage.completion_tokens,
       total_tokens |-> usage.total_tokens,
       est_cost_usd |-> Format6(est_cost(usage))]

\* ------------------------------------------------------------- variables
VARIABLES
  p_pc, p_lines, p_text, p_res,          \* SpecParse: parse_output's input and result
  b_pc, b_parsed, b_lang, b_body,        \* SpecBody: build_email_body's input and result
  \* Spec: main()
  keyPresent,      \* "OPENAI_API_KEY" in os.environ
  inputExists,     \* inp.exists()
  delay_ms,        \* args.delay_ms
  default_lang,    \* args.default_lang
  rows,            \* the rows csv.DictReader yields
  m_pc,            \* the position in main
  idx,             \* the rows read so far
  cur,             \* company, niche, website, lang of the row in hand
  outdirCreated,   \* outdir.mkdir was called
  outfile,         \* the output file: exists, header, records
  inflight,        \* service requests without a response yet
  resp,            \* the response in hand: text, usage
  total,           \* the running Usage total
  printed,         \* the totals printed at the end
  exitMsg,         \* the SystemExit message
  requests,        \* history: the requests issued, with the row of each
  skipLog,         \* history: the rows reported as skipped
  sleeps,          \* history: the delays performed, with the row each follows
  failed           \* history: a service call raised

parseVars == <<p_pc, p_lines, p_text, p_res>>
bodyVars  == <<b_pc, b_parsed, b_lang, b_body>>
envVars   == <<keyPresent, inputExists, delay_ms, default_lang, rows>>
mainVars  == <<m_pc, idx, cur, outdirCreated, outfile, inflight, resp, total, printed,
               exitMsg, requests, skipLog, sleeps, failed>>
vars == <<parseVars, bodyVars, envVars, mainVars>>

SeqsUpTo(S, n) == UNION {[1..k -> S] : k \in 0..n}

\* ------------------------------------------------- SpecParse: the inputs
LineSubject   == <<"S","u","b","j","e","c","t",":"," ","a">>
LineOpener    == <<"o","p","e","n","e","r",":">>
LineBullets   == <<"B","u","l","l","e","t","s",":">>
LineDashA     == <<"-"," ","a">>
LineDashB     == <<" ","-","b"," ">>
LineCta       == <<"C","T","A",":"," ","c",":","d">>
LineOther     == <<"h","i">>
LineBlank     == <<" ">>
LineSet == {LineSubject, LineOpener, LineBullets, LineDashA, LineDashB, LineCta,
            LineOther, LineBlank}

NoResult == [raised |-> FALSE, out |-> EmptyOut]

IdleParse == p_pc = "idle" /\ p_lines = <<>> /\ p_text = <<>> /\ p_res = NoResult
IdleBody  == b_pc = "idle" /\ b_parsed = EmptyOut /\ b_lang = <<>> /\ b_body = <<>>

English == <<"E","n","g","l","i","s","h">>
NoProspect == [company |-> <<>>, niche |-> <<>>, website |-> <<>>, lang |-> <<>>]
NoResponse == [text |-> <<>>, usage |-> ZeroUsage]
NoFile == [exists |-> FALSE, header |-> <<>>, records |-> <<>>]
NotPrinted == [done |-> FALSE, prompt_tokens |-> 0, completion_tokens |-> 0,
               total_tokens |-> 0, cost |-> 0]
MainStart ==
  /\ m_pc = "start" /\ idx = 0 /\ cur = NoProspect /\ outdirCreated = FALSE
  /\ outfile = NoFile /\ inflight = 0 /\ resp = NoResponse /\ total = ZeroUsage
  /\ printed = NotPrinted /\ exitMsg = "" /\ requests = <<>> /\ skipLog = <<>>
  /\ sleeps = <<>> /\ failed = FALSE
IdleMain ==
  /\ keyPresent = FALSE /\ inputExists = FALSE /\ delay_ms = 0 /\ default_lang = English
  /\ rows = <<>> /\ MainStart /\ m_pc = "start"

InitParse ==
  /\ p_pc = "ready"
  /\ p_lines \in SeqsUpTo(LineSet, MaxLines)
  /\ p_text = Join(p_lines, <<NL>>)
  /\ p_res = NoResult
  /\ IdleBody
  /\ IdleMain

Parse ==
  /\ p_pc = "ready"
  /\ p_res' = parse_output(p_text)
  /\ p_pc' = "done"
  /\ UNCHANGED <<p_lines, p_text, bodyVars, envVars, mainVars>>

NextParse == Parse
SpecParse == InitParse /\ [][NextParse]_vars

\* -------------------------------------------------- SpecBody: the inputs
LangChars == {"r", "R", "o", "O", "m", " "}
ParsedSet ==
  {  ("opener" :> o) @@ ("bullet1" :> x) @@ ("bullet2" :> y) @@ z @@ ("cta" :> c)
     @@ ("subject" :> <<"s">>) :
       o \in {<<>>, <<"o">>},
       x \in {<<>>, <<" ">>, <<" ", "x">>},
       y \in {<<>>, <<"y">>},
       z \in {<<>>, ("bullet3" :> <<"z">>)},
       c \in {<<>>, <<" ">>, <<"c">>} }

InitBody ==
  /\ b_pc = "ready"
  /\ b_parsed \in ParsedSet
  /\ b_lang \in SeqsUpTo(LangChars, MaxLangLen)
  /\ b_body = <<>>
  /\ IdleParse
  /\ IdleMain

Build ==
  /\ b_pc = "ready"
  /\ b_body' = build_email_body(<<"A">>, <<"n">>, b_parsed, b_lang)
  /\ b_pc' = "done"
  /\ UNCHANGED <<b_parsed, b_lang, parseVars, envVars, mainVars>>

NextBody == Build
SpecBody == InitBody /\ [][NextBody]_vars

\* ------------------------------------------------------- Spec: the inputs
RowA == [company_name |-> Cell(<<" ", "A">>), niche |-> Cell(<<"n">>),
         website |-> NoneCell, lang |-> Cell(<<" ">>)]
RowB == [company_name |-> Cell(<<"B">>), niche |-> Cell(<<"m", " ">>),
         website |-> Cell(<<"w">>), lang |-> Cell(<<"R", "O", " ">>)]
RowNoCompany    == [company_name |-> NoneCell, niche |-> Cell(<<"n">>),
                    website |-> NoneCell, lang |-> NoneCell]
RowBlankCompany == [company_name |-> Cell(<<" ">>), niche |-> Cell(<<"n">>),
                    website |-> Cell(<<"w">>), lang |-> NoneCell]
RowNoNiche      == [company_name |-> Cell(<<"A">>), niche |-> Cell(<<>>),
                    website |-> NoneCell, lang |-> NoneCell]
RowSet == {RowA, RowB, RowNoCompany, RowBlankCompany, RowNoNiche}

\* what the service may answer: the content and the usage counters of the response
ContentFull ==
  Join(<<LineSubject, LineOpener \o <<" ", "o">>, LineBullets, LineDashA, LineDashB,
         LineCta>>, <<NL>>) \o <<NL>>
ContentNoCta == Join(<<LineDashA, LineSubject, LineOther>>, <<NL>>)
UsageSmall == [prompt_tokens |-> 3, completion_tokens |-> 1, total_tokens |-> 4]
UsageMillion ==
  [prompt_tokens |-> 1000000, completion_tokens |-> 1000000, total_tokens |-> 2000000]
UsageNoTotal == [prompt_tokens |-> 3, completion_tokens |-> 1]
ResponseSet ==
  {[content |-> ContentFull, usage |-> UsageSmall],
   [content |-> ContentNoCta, usage |-> UsageMillion],
   [content |-> ContentNoCta, usage |-> UsageNoTotal]}

Init ==
  /\ keyPresent \in BOOLEAN
  /\ inputExists \in BOOLEAN
  /\ delay_ms \in {-5, 600}
  /\ default_lang \in {English, <<"r", "o">>}
  /\ rows \in SeqsUpTo(RowSet, MaxRows)
  /\ MainStart
  /\ IdleParse
  /\ IdleBody

\* --------------------------------------------------------- Spec: main()
\* lines 125-126: the credential check
CheckCredential ==
  /\ m_pc = "start"
  /\ IF keyPresent
     THEN m_pc' = "check_input" /\ UNCHANGED exitMsg
     ELSE m_pc' = "fatal" /\ exitMsg' = "Missing OPENAI_API_KEY"
  /\ UNCHANGED <<idx, cur, outdirCreated, outfile, inflight, resp, total, printed,
                 requests, skipLog, sleeps, failed, envVars, parseVars, bodyVars>>

\* an input-file check made after the output directory is created
CheckInputFileLate ==
  /\ m_pc = "check_input"
  /\ outdirCreated' = TRUE
  /\ IF inputExists
     THEN m_pc' = "open" /\ UNCHANGED exitMsg
     ELSE m_pc' = "fatal" /\ exitMsg' = "Input CSV not found"
  /\ UNCHANGED <<idx, cur, outfile, inflight, resp, total, printed,
                 requests, skipLog, sleeps, failed, envVars, parseVars, bodyVars>>

\* lines 128-139: the arguments are parsed, the input file must exist
CheckInputFile ==
  /\ m_pc = "check_input"
  /\ IF inputExists
     THEN m_pc' = "mkdir" /\ UNCHANGED exitMsg
     ELSE m_pc' = "fatal" /\ exitMsg' = "Input CSV not found"
  /\ UNCHANGED <<idx, cur, outdirCreated, outfile, inflight, resp, total, printed,
                 requests, skipLog, sleeps, failed, envVars, parseVars, bodyVars>>

\* lines 141-146: the output directory is made, the client and the total created
MakeOutdir ==
  /\ m_pc = "mkdir"
  /\ outdirCreated' = TRUE
  /\ total' = ZeroUsage
  /\ m_pc' = "open"
  /\ UNCHANGED <<idx, cur, outfile, inflight, resp, printed, exitMsg,
                 requests, skipLog, sleeps, failed, envVars, parseVars, bodyVars>>

\* lines 148-155: both files are opened and the header is written
OpenFiles ==
  /\ m_pc = "open"
  /\ outfile' = [exists |-> TRUE, header |-> Fieldnames, records |-> <<>>]
  /\ m_pc' = "loop"
  /\ UNCHANGED <<idx, cur, outdirCreated, inflight, resp, total, printed, exitMsg,
                 requests, skipLog, sleeps, failed, envVars, parseVars, bodyVars>>

Prospect(row) ==
  [company |-> Company(row), niche |-> Niche(row), website |-> Website(row),
   lang |-> Lang(row, default_lang)]

\* lines 157-164: the next row lacks a company or a niche: reported, skipped
ReadRowSkip ==
  /\ m_pc = "loop"
  /\ idx < Len(rows)
  /\ IsSkipped(Company(rows[idx + 1]), Niche(rows[idx + 1]))
  /\ idx' = idx + 1
  /\ cur' = Prospect(rows[idx + 1])
  /\ skipLog' = Append(skipLog, idx + 1)
  /\ UNCHANGED <<m_pc, outdirCreated, outfile, inflight, resp, total, printed, exitMsg,
                 requests, sleeps, failed, envVars, parseVars, bodyVars>>

\* lines 157-166 and 54-63: the next row is a prospect: its request is issued
ReadRowCall ==
  /\ m_pc = "loop"
  /\ idx < Len(rows)
  /\ ~IsSkipped(Company(rows[idx + 1]), Niche(rows[idx + 1]))
  /\ idx' = idx + 1
  /\ cur' = Prospect(rows[idx + 1])
  /\ requests' = Append(requests, [row |-> idx + 1, prospect |-> Prospect(rows[idx + 1])])
  /\ inflight' = inflight + 1
  /\ m_pc' = "await"
  /\ UNCHANGED <<outdirCreated, outfile, resp, total, printed, exitMsg,
                 skipLog, sleeps, failed, envVars, parseVars, bodyVars>>

\* lines 64-70: the response arrives; call_model returns the text and the usage
ServiceRespond ==
  /\ m_pc = "await"
  /\ \E r \in ResponseSet :
       resp' = [text |-> Strip(r.content), usage |-> UsageOf(r.usage)]
  /\ inflight' = inflight - 1
  /\ m_pc' = "emit"
  /\ UNCHANGED <<idx, cur, outdirCreated, outfile, total, printed, exitMsg,
                 requests, skipLog, sleeps, failed, envVars, parseVars, bodyVars>>

\* a failure that is caught: the row is dropped and the loop goes on
ServiceFailCaught ==
  /\ m_pc = "await"
  /\ inflight' = inflight - 1
  /\ failed' = TRUE
  /\ m_pc' = "loop"
  /\ UNCHANGED <<idx, cur, outdirCreated, outfile, resp, total, printed, exitMsg,
                 requests, skipLog, sleeps, envVars, parseVars, bodyVars>>

\* a failure that is retried: the request of the row is issued again
ServiceFailRetried ==
  /\ m_pc = "await"
  /\ Len(requests) <= MaxRows
  /\ requests' = Append(requests, [row |-> idx, prospect |-> cur])
  /\ UNCHANGED <<m_pc, idx, cur, outdirCreated, outfile, inflight, resp, total, printed,
                 exitMsg, skipLog, sleeps, failed, envVars, parseVars, bodyVars>>

\* lines 55-64 raise: nothing in main catches it, the with block closes the files
\* and the process ends
ServiceFail ==
  /\ m_pc = "await"
  /\ inflight' = inflight - 1
  /\ failed' = TRUE
  /\ m_pc' = "aborted"
  /\ UNCHANGED <<idx, cur, outdirCreated, outfile, resp, total, printed, exitMsg,
                 requests, skipLog, sleeps, envVars, parseVars, bodyVars>>

\* lines 167-182: the response is parsed, the body built, the total updated and
\* the record written
EmitRecord ==
  /\ m_pc = "emit"
  /\ total' = AddUsage(total, resp.usage)
  /\ outfile' = [outfile EXCEPT
                   !.records = Append(@, OutputRecord(cur, resp.text, resp.usage))]
  /\ m_pc' = "sleep"
  /\ UNCHANGED <<idx, cur, outdirCreated, inflight, resp, printed, exitMsg,
                 requests, skipLog, sleeps, failed, envVars, parseVars, bodyVars>>

\* a loop without the pacing delay
SleepOmitted ==
  /\ m_pc = "sleep"
  /\ m_pc' = "loop"
  /\ UNCHANGED <<idx, cur, outdirCreated, outfile, inflight, resp, total, printed,
                 exitMsg, requests, skipLog, sleeps, failed, envVars, parseVars, bodyVars>>

\* line 184: the pacing delay
Sleep ==
  /\ m_pc = "sleep"
  /\ sleeps' = Append(sleeps, [row |-> idx, ms |-> SleepMs(delay_ms)])
  /\ m_pc' = "loop"
  /\ UNCHANGED <<idx, cur, outdirCreated, outfile, inflight, resp, total, printed,
                 exitMsg, requests, skipLog, failed, envVars, parseVars, bodyVars>>

\* lines 157, 186-189: the input is exhausted, the files close, the totals are printed
Report ==
  /\ m_pc = "loop"
  /\ idx = Len(rows)
  /\ printed' = [done |-> TRUE, prompt_tokens |-> total.prompt_tokens,
                 completion_tokens |-> total.completion_tokens,
                 total_tokens |-> total.total_tokens,
                 cost |-> Format6(est_cost(total))]
  /\ m_pc' = "done"
  /\ UNCHANGED <<idx, cur, outdirCreated, outfile, inflight, resp, total, exitMsg,
                 requests, skipLog, sleeps, failed, envVars, parseVars, bodyVars>>

Next ==
  \/ CheckCredential
  \/ CheckInputFile
  \/ MakeOutdir
  \/ OpenFiles
  \/ ReadRowSkip
  \/ ReadRowCall
  \/ ServiceRespond
  \/ ServiceFail
  \/ EmitRecord
  \/ Sleep
  \/ Report

Spec == Init /\ [][Next]_vars

\* ------------------------------------------------------ claims on main()
\* a cell's text after trimming, read off the input row
CellText(c) == IF c.isNone THEN <<>> ELSE Strip(c.s)
ValidRow(row) == CellText(row.company_name) # <<>> /\ CellText(row.niche) # <<>>
\* the valid (invalid) rows among the first n, by position, in input order
ValidIdx(n) == SelectSeq([i \in 1..n |-> i], LAMBDA i : ValidRow(rows[i]))
InvalidIdx(n) == SelectSeq([i \in 1..n |-> i], LAMBDA i : ~ValidRow(rows[i]))
\* record rec is the record of input row i
RecordOfRow(rec, i) ==
  /\ rec.company_name = CellText(rows[i].company_name)
  /\ rec.niche = CellText(rows[i].niche)
  /\ rec.website = CellText(rows[i].website)
\* the records are those of the valid rows among the first n, in input order
RecordsAreValidRows(n) ==
  LET I == ValidIdx(n)
  IN  /\ Len(outfile.records) = Len(I)
      /\ \A k \in 1..Len(I) : RecordOfRow(outfile.records[k], I[k])
\* the rows whose handling is over
RowsHandled == IF m_pc \in {"await", "emit", "aborted"} THEN idx - 1 ELSE idx

\* C1: while no service call fails, the output records are exactly the rows with
\* a non-empty trimmed company_name and niche, one record each, in input order;
\* the other rows give no record and are the rows reported as skipped; a finished
\* run has gone through every row.
C1_OutputIsValidSubsequence ==
  ~failed =>
    /\ RecordsAreValidRows(RowsHandled)
    /\ skipLog = InvalidIdx(idx)
    /\ m_pc = "done" => idx = Len(rows)

\* a finished run over a valid row, a skipped row and a valid row
C1_Witness ==
  /\ m_pc = "done"
  /\ Len(rows) = 3
  /\ ValidRow(rows[1]) /\ ~ValidRow(rows[2]) /\ ValidRow(rows[3])
  /\ Len(outfile.records) = 2
  /\ skipLog = <<2>>

\* C6: with the credential absent or the input file missing, main exits with a
\* fatal error and the output directory is not made, the output file not created,
\* no row read and no request issued.
C6_ConfigErrorsFatalBeforeWork ==
  /\ (~keyPresent \/ ~inputExists) =>
       /\ m_pc \in {"start", "check_input", "fatal"}
       /\ ~outdirCreated
       /\ ~outfile.exists
       /\ idx = 0
       /\ requests = <<>>
       /\ inflight = 0
  /\ m_pc = "check_input" => keyPresent
  /\ m_pc = "fatal" => (exitMsg # "" /\ (~keyPresent \/ ~inputExists))

\* the credential is there, the input file is not: the fatal exit
C6_Witness ==
  /\ m_pc = "fatal"
  /\ keyPresent
  /\ ~inputExists
  /\ exitMsg = "Input CSV not found"

\* C7: once a service call has raised the run is over: nothing is printed, no
\* request is outstanding, the failing row's request is the last one issued, and
\* the output file holds the header and the records of the valid rows before the
\* failing row, in input order.
C7_FailureAbortsBatch ==
  failed =>
    /\ m_pc = "aborted"
    /\ ~printed.done
    /\ inflight = 0
    /\ outfile.exists /\ outfile.header = Fieldnames
    /\ ValidRow(rows[idx])
    /\ RecordsAreValidRows(idx - 1)
    /\ Len(requests) = Len(outfile.records) + 1
    /\ requests[Len(requests)].row = idx

\* a failure after one record, with a row still unread
C7_Witness ==
  /\ failed
  /\ m_pc = "aborted"
  /\ Len(outfile.records) = 1
  /\ idx < Len(rows)

RECURSIVE SumOf(_, _)
SumOf(recs, field) ==
  IF recs = <<>> THEN 0 ELSE Head(recs)[field] + SumOf(Tail(recs), field)
\* 0.15 USD per million prompt tokens and 0.60 per million completion tokens, in
\* 10^-8 USD
CostOf(rec) == 15 * rec.prompt_tokens + 60 * rec.completion_tokens
RECURSIVE SumCost(_)
SumCost(recs) == IF recs = <<>> THEN 0 ELSE CostOf(Head(recs)) + SumCost(Tail(recs))
\* 10^-8 USD rendered in 10^-6 USD
Micro(x) == (x + 50) \div 100

\* C8: each record carries the cost of its own usage by the linear formula (one
\* million prompt and one million completion tokens cost 0.750000), the running
\* total's three counts are the sums over the records written, and the totals
\* printed are those sums and the formula applied to them.
C8_CostAccounting ==
  LET recs == outfile.records
  IN  /\ \A k \in 1..Len(recs) :
           /\ recs[k].est_cost_usd = Micro(CostOf(recs[k]))
           /\ (recs[k].prompt_tokens = 1000000 /\ recs[k].completion_tokens = 1000000)
                => recs[k].est_cost_usd = 750000
      /\ total.prompt_tokens = SumOf(recs, "prompt_tokens")
      /\ total.completion_tokens = SumOf(recs, "completion_tokens")
      /\ total.total_tokens = SumOf(recs, "total_tokens")
      /\ printed.done =>
           /\ printed.prompt_tokens = SumOf(recs, "prompt_tokens")
           /\ printed.completion_tokens = SumOf(recs, "completion_tokens")
           /\ printed.total_tokens = SumOf(recs, "total_tokens")
           /\ printed.cost = Micro(SumCost(recs))

\* the totals printed over three records of different usage
C8_Witness ==
  /\ printed.done
  /\ Len(outfile.records) = 3
  /\ outfile.records[1].est_cost_usd = 750000
  /\ outfile.records[2].est_cost_usd = 1
  /\ outfile.records[3].total_tokens = 0
  /\ printed.cost = 750002

\* C9: the requests issued are one per valid row read so far, in input order, with
\* that row's fields, and none for a skipped row; at most one request is
\* outstanding, and only while main waits for it; when the next row is about to
\* be read every request has its record written.
C9_OneSequentialCallPerProspect ==
  LET I == ValidIdx(idx)
  IN  /\ Len(requests) = Len(I)
      /\ \A k \in 1..Len(I) :
           /\ requests[k].row = I[k]
           /\ requests[k].prospect.company = CellText(rows[I[k]].company_name)
           /\ requests[k].prospect.niche = CellText(rows[I[k]].niche)
      /\ inflight \in {0, 1}
      /\ inflight = 1 <=> m_pc = "await"
      /\ m_pc \in {"await", "emit"} => Len(outfile.records) = Len(requests) - 1
      /\ m_pc \in {"sleep", "loop", "done"} =>
           (Len(outfile.records) = Len(requests) /\ inflight = 0)

\* a finished run with two requests around a skipped row
C9_Witness ==
  /\ m_pc = "done"
  /\ Len(rows) = 3
  /\ Len(requests) = 2
  /\ requests[1].row = 1 /\ requests[2].row = 3
  /\ skipLog = <<2>>

\* C10 as amended: a delay of max(delay_ms, 0) milliseconds follows each row for
\* which a request was made and a record written, and no other row; so when a
\* request is outstanding, every earlier request has been followed by its delay.
C10_DelayAfterEachProcessedRow ==
  /\ \A k \in 1..Len(sleeps) :
       /\ sleeps[k].row = requests[k].row
       /\ sleeps[k].ms = (IF delay_ms > 0 THEN delay_ms ELSE 0)
  /\ m_pc \in {"loop", "done"} => Len(sleeps) = Len(outfile.records)
  /\ m_pc \in {"await", "emit", "sleep", "aborted"} => Len(sleeps) = Len(requests) - 1

\* a second request issued after a delay, with a skipped row in between
C10_Witness ==
  /\ m_pc = "await"
  /\ idx = 3
  /\ skipLog = <<2>>
  /\ sleeps = <<[row |-> 1, ms |-> 0]>>
  /\ delay_ms < 0

\* C10 as stated: when the next row is about to be handled, every row handled so
\* far has been followed by a delay step.
C10_DelayAfterEveryRow ==
  m_pc = "loop" => \A i \in 1..idx : \E k \in 1..Len(sleeps) : sleeps[k].row = i

\* ------------------------------------------------ claims on parse_output
NonEmpty(s) == s # <<>>
\* the trimmed non-empty lines, taken from the lines the text was built from
P_L == SelectSeq([i \in 1..Len(p_lines) |-> Strip(p_lines[i])], NonEmpty)
IsMark(l, m) ==
  Len(l) >= Len(m) /\ \A i \in 1..Len(m) : Lower1(l[i]) = m[i]
IsReset(l) == IsMark(l, SubjectMark) \/ IsMark(l, OpenerMark) \/ IsMark(l, CtaMark)
\* line i is seen in bullet mode: a Bullets: line precedes it with no Subject:,
\* Opener: or CTA: line in between
InBulletMode(L, i) ==
  \E j \in 1..(i - 1) :
    /\ IsMark(L[j], BulletsMark)
    /\ \A k \in (j + 1)..(i - 1) : ~IsReset(L[k])
IsDash(l) == l[1] = "-"
SeenBullets(L) ==
  LET isBullet(i) == IsDash(L[i]) /\ InBulletMode(L, i)
      I == SelectSeq([i \in 1..Len(L) |-> i], isBullet)
  IN  [k \in 1..Len(I) |-> Strip(Tail(L[I[k]]))]

\* C2: bullet1..bullet3 are the first three, in encounter order, of the '-' lines
\* seen in bullet mode (marker removed, trimmed); missing ones are empty, a fourth
\* or later one is discarded, and '-' lines outside bullet mode are not collected.
C2_BulletsFirstThree ==
  p_pc = "done" =>
    LET B == SeenBullets(P_L)
    IN  \A k \in 1..3 :
          p_res.out[BulletField(k)] = (IF k <= Len(B) THEN B[k] ELSE <<>>)

\* more than three bullets in bullet mode, the first two different
C2_Witness ==
  /\ p_pc = "done"
  /\ LET B == SeenBullets(P_L) IN Len(B) > 3 /\ B[1] # B[2]
  /\ p_res.out["bullet3"] # <<>>

HasMark(L, m) == \E i \in 1..Len(L) : IsMark(L[i], m)

\* C3: parse_output never raises; its result has exactly the six fields, and a
\* field whose marker never occurs is empty (no CTA: line gives an empty cta,
\* no Bullets: line gives three empty bullets).
C3_ParserTotal ==
  p_pc = "done" =>
    LET L == P_L
    IN  /\ ~p_res.raised
        /\ DOMAIN p_res.out = Fields
        /\ ~HasMark(L, SubjectMark) => p_res.out["subject"] = <<>>
        /\ ~HasMark(L, OpenerMark) => p_res.out["opener"] = <<>>
        /\ ~HasMark(L, CtaMark) => p_res.out["cta"] = <<>>
        /\ ~HasMark(L, BulletsMark) =>
             \A k \in 1..3 : p_res.out[BulletField(k)] = <<>>

\* a response with a subject and a bullet but without a CTA: line
C3_Witness ==
  /\ p_pc = "done"
  /\ ~HasMark(P_L, CtaMark)
  /\ HasMark(P_L, SubjectMark)
  /\ "cta" \in DOMAIN p_res.out
  /\ p_res.out["cta"] = <<>>
  /\ p_res.out["bullet1"] # <<>>

\* -------------------------------------------- claims on build_email_body
B_Get(k) == IF k \in DOMAIN b_parsed THEN Strip(b_parsed[k]) ELSE <<>>
B_Bullets == SelectSeq(<<B_Get("bullet1"), B_Get("bullet2"), B_Get("bullet3")>>, NonEmpty)
B_Lines == SplitLines(b_body)
B_Expected(heading) ==
  <<B_Get("opener")>>
  \o (IF B_Bullets = <<>> THEN <<>>
      ELSE << <<>>, heading >> \o [i \in 1..Len(B_Bullets) |-> <<"-", " ">> \o B_Bullets[i]])
  \o (IF B_Get("cta") = <<>> THEN <<>> ELSE << <<>>, B_Get("cta") >>)
  \o << <<>>, <<"Best,">>, <<"Magnusbane Team">> >>

\* C4: the body is the opener line, the bullet block (blank line, heading, one
\* "- <bullet>" line per non-empty bullet in order) unless all three bullets are
\* empty, the call-to-action block (blank line, CTA line) unless the CTA is empty,
\* then a blank line, "Best," and the signature; fields are empty when empty after
\* trimming, as lines 98-103 trim them.
C4_BodyLayout ==
  b_pc = "done" =>
    \E heading \in {HeadingEn, HeadingRo} : B_Lines = B_Expected(heading)

\* a second and third bullet without a first one, and no call-to-action
C4_Witness ==
  /\ b_pc = "done"
  /\ B_Get("bullet1") = <<>>
  /\ Len(B_Bullets) = 2
  /\ B_Get("cta") = <<>>
  /\ Len(B_Lines) = 8

\* C5 as amended: with the bullet block present, a lang value that starts with "ro"
\* in any letter case selects the Romanian heading and every other value selects
\* the English one.
C5_HeadingByPrefix ==
  (b_pc = "done" /\ B_Bullets # <<>>) =>
    B_Lines[3] = (IF Len(b_lang) >= 2 /\ b_lang[1] \in {"r", "R"} /\ b_lang[2] \in {"o", "O"}
                  THEN HeadingRo ELSE HeadingEn)

\* "RO" selects the Romanian heading
C5_Witness ==
  /\ b_pc = "done"
  /\ B_Bullets # <<>>
  /\ b_lang = <<"R", "O">>
  /\ B_Lines[3] = HeadingRo

\* C5 as stated: "ro" in any letter case selects the Romanian heading and any
\* other value the English one.
C5_OnlyRoSelectsRomanian ==
  (b_pc = "done" /\ B_Bullets # <<>>) =>
    (B_Lines[3] = HeadingRo <=> Lower(b_lang) = <<"r", "o">>)

====
